---- MODULE Spec2Model ----
(***************************************************************************)
(* Model of controlflow.core.task.Task: the dependency graph node          *)
(* (parent / subtasks / depends_on / downstreams), the status state        *)
(* machine (set_status, mark_successful, mark_failed, mark_skipped),       *)
(* result validation (validate_result), readiness and tools (is_ready,     *)
(* get_tools), the task as a scope (__enter__ / __exit__) and the run      *)
(* loops (run, run_async).                                                 *)
(*                                                                         *)
(* Task objects are identified by the integers 1..NumTasks, handed out in  *)
(* order of construction; 0 stands for Python's None where a task is       *)
(* expected.  Result values, messages and descriptors are strings.         *)
(***************************************************************************)
EXTENDS Integers, FiniteSets, Sequences, TLC

\* ------------------------------------------------------------------ bounds
\* Task objects that can be constructed while the graph is being wired.
NumTasks == 3
\* Task objects that exist when the status operations start.
NumLive == 2
\* Constructor and wiring calls made in one run.
MaxGraphOps == 4
\* Status calls made in one run.
MaxOps == 2
\* `with task:` blocks open inside one another.
MaxDepth == 3
\* The largest finite max_iterations a loop is called with, and the number
\* of rounds a loop without limit is followed for.
MaxIterations == 2

\* --------------------------------------------------------------- constants
NoTask == 0
Tasks == 1..NumTasks

INCOMPLETE == "INCOMPLETE"
SUCCESSFUL == "SUCCESSFUL"
FAILED == "FAILED"
SKIPPED == "SKIPPED"
TaskStatus == {INCOMPLETE, SUCCESSFUL, FAILED, SKIPPED}

\* Python values that reach `result` and `error`.  NoneValue is None; "a",
\* "b", "c" are the strings 'a', 'b', 'c'; "str:5" is the string '5' and
\* "int:5" the integer 5.
NoneValue == "None"
Values == {NoneValue, "a", "c", "str:5"}
Messages == {NoneValue, "boom"}

\* result_type descriptors: None (no result expected), the default str, int,
\* and Literal['a', 'b'] (what a list ['a', 'b'] is turned into).
TypeNone == "None"
TypeStr == "str"
TypeInt == "int"
TypeLiteralAB == "Literal['a','b']"
ResultTypes == {TypeNone, TypeStr, TypeInt, TypeLiteralAB}

\* The exception raised by validate_result, as a value no result can equal.
Raises == "<raise>"

VARIABLES created, parent, depends_on, subtasks, downstreams, status, result,
          result_type, error, last, nops,
          user_access, tools, ctx_tasks, cm_stack, with_blocks, run, run_args,
          effects

vars == <<created, parent, depends_on, subtasks, downstreams, status, result,
          result_type, error, last, nops,
          user_access, tools, ctx_tasks, cm_stack, with_blocks, run, run_args,
          effects>>

\* What the graph and status operations never touch: the tool settings of
\* the tasks, the ambient task stack with the tasks' scope handles and the
\* caller's open `with` blocks, and the state of the run loops.
scope == <<ctx_tasks, cm_stack, with_blocks>>

loops == <<run, run_args, effects>>

toolset == <<user_access, tools>>

\* The two loop drivers, Task.run and Task.run_async, and the task each is
\* called on.
Drivers == {"run", "run_async"}

\* The task each driver is called on: two tasks in the same state.
RunTask(d) == IF d = "run" THEN 1 ELSE 2

\* max_iterations = None, which _run turns into float("inf").
Infinite == -1

\* What one external round (Controller.run_once) does to the task it is run
\* for: nothing, or one of the calls the task's tools make.
Effects ==
    {[op |-> "none", value |-> NoneValue],
     [op |-> "mark_successful", value |-> "a"],
     [op |-> "mark_failed", value |-> "boom"],
     [op |-> "mark_skipped", value |-> NoneValue]}

\* A driver that has not been called: no round counted, nothing returned.
NoOutcome == [kind |-> "none", value |-> NoneValue]

IdleRun == [pc |-> "idle", counter |-> 0, rounds |-> 0, outcome |-> NoOutcome]

\* ------------------------------------------------------------ pure helpers
is_incomplete(t) == status[t] = INCOMPLETE

is_complete(t) == status[t] # INCOMPLETE

is_successful(t) == status[t] = SUCCESSFUL

is_failed(t) == status[t] = FAILED

is_skipped(t) == status[t] = SKIPPED

\* A readiness that looks at the task alone.
is_ready_IgnoresDependencies(t) == is_incomplete(t)

\* A readiness that waits for every dependency to succeed.
is_ready_OnlySuccessful(t) ==
    is_incomplete(t) /\ \A d \in depends_on[t] : is_successful(d)

\* self.is_incomplete() and all(t.is_complete() for t in self.depends_on),
\* computed from the statuses at the time of the call.
is_ready(t) == is_incomplete(t) /\ \A d \in depends_on[t] : is_complete(d)

\* The tools get_tools can add: the fail and success tools made for the
\* task, the skip tool made for it, and talk_to_human; and a tool of the
\* caller's own, as the task's tools field may list.
FailTool(t) == [tool |-> "fail", task |-> t]

SuccessTool(t) == [tool |-> "succeed", task |-> t]

SkipTool(t) == [tool |-> "skip", task |-> t]

TalkToHuman == [tool |-> "talk_to_human", task |-> NoTask]

OwnTool == [tool |-> "own", task |-> NoTask]

\* A get_tools that offers the fail and success tools in every status.
get_tools_Always(t) ==
    tools[t] \o <<FailTool(t), SuccessTool(t)>>
             \o (IF user_access[t] THEN <<TalkToHuman>> ELSE <<>>)

\* self.get_tools(): the list the call returns.
get_tools(t) ==
    tools[t] \o (IF is_incomplete(t)
                 THEN <<FailTool(t), SuccessTool(t)>> ELSE <<>>)
             \o (IF user_access[t] THEN <<TalkToHuman>> ELSE <<>>)

\* TypeAdapter(result_type).validate_python(result) for the descriptors of
\* ResultTypes: str accepts strings only, int accepts integers and numeric
\* strings (which it converts), a Literal accepts exactly its members.
validate_python(v, rt) ==
    CASE rt = TypeStr -> IF v \in {"a", "b", "c", "str:5"} THEN v ELSE Raises
      [] rt = TypeInt -> IF v \in {"int:5", "str:5"} THEN "int:5" ELSE Raises
      [] rt = TypeLiteralAB -> IF v \in {"a", "b"} THEN v ELSE Raises
      [] OTHER -> Raises

\* A validate_result that accepts whatever it is given.
validate_result_Unchecked(v, rt) == v

validate_result(v, rt) ==
    IF rt = TypeNone /\ v # NoneValue THEN Raises
    ELSE IF rt # TypeNone THEN validate_python(v, rt)
    ELSE v

\* A dependency check that finds nothing to wait for.
IncompleteDependencies_None(t) == {}

\* A dependency check that does not count the task itself.
IncompleteDependencies_IgnoresSelf(t) ==
    {d \in depends_on[t] \ {t} : is_incomplete(d)}

\* any(t.is_incomplete() for t in self.depends_on)
IncompleteDependencies(t) == {d \in depends_on[t] : is_incomplete(d)}

\* any(t.is_incomplete() for t in self._subtasks)
IncompleteSubtasks(t) == {s \in subtasks[t] : is_incomplete(s)}

\* The four relations of the task graph as one value, so that the wiring
\* methods can be written as functions from graph to graph.
Graph == [parent |-> parent, depends_on |-> depends_on,
          subtasks |-> subtasks, downstreams |-> downstreams]

EmptyGraph == [parent |-> [t \in Tasks |-> NoTask],
               depends_on |-> [t \in Tasks |-> {}],
               subtasks |-> [t \in Tasks |-> {}],
               downstreams |-> [t \in Tasks |-> {}]]

\* An add_dependency that links the two tasks in both directions.
AddDependency_Symmetric(g, self, task) ==
    [g EXCEPT !.depends_on[self] = @ \cup {task},
              !.depends_on[task] = @ \cup {self},
              !.downstreams[task] = @ \cup {self},
              !.downstreams[self] = @ \cup {task}]

\* self.add_dependency(task)
AddDependency(g, self, task) ==
    [g EXCEPT !.depends_on[self] = @ \cup {task},
              !.downstreams[task] = @ \cup {self}]

\* An add_subtask that never refuses a task that has a parent.
AddSubtaskRaises_Never(g, self, task) == FALSE

\* self.add_subtask(task) raises when task already has another parent
AddSubtaskRaises(g, self, task) ==
    g.parent[task] # NoTask /\ g.parent[task] # self

\* An add_subtask that forgets the implicit dependency.
AddSubtask_NoDependency(g, self, task) ==
    [g EXCEPT !.parent[task] = self,
              !.subtasks[self] = @ \cup {task}]

\* self.add_subtask(task) when it does not raise
AddSubtask(g, self, task) ==
    [g EXCEPT !.parent[task] = self,
              !.subtasks[self] = @ \cup {task},
              !.depends_on[self] = @ \cup {task}]

\* for task in self.depends_on: self.add_dependency(task)
RECURSIVE AddDependencies(_, _, _)
AddDependencies(g, self, deps) ==
    IF deps = {} THEN g
    ELSE LET d == CHOOSE x \in deps : TRUE
         IN AddDependencies(AddDependency(g, self, d), self, deps \ {d})

\* Task._finalize for a new task t whose fields were set to parent = p and
\* depends_on = deps, and whose context holds the tasks cx.
Finalize(g, t, p, deps, cx) ==
    LET g0 == [g EXCEPT !.parent[t] = p, !.depends_on[t] = deps]
        g1 == AddDependencies(g0, t, deps)
        g2 == IF p # NoTask THEN AddSubtask(g1, p, t) ELSE g1
    IN [g2 EXCEPT !.depends_on[t] = @ \cup cx]

\* The graphs of n tasks constructed one after the other, each with a parent
\* and explicit dependencies among the tasks constructed before it.
RECURSIVE Constructed(_)
Constructed(n) ==
    IF n = 0 THEN {EmptyGraph}
    ELSE {Finalize(g, n, p, deps, {}) :
            g \in Constructed(n - 1), p \in 0..(n - 1),
            deps \in SUBSET (1..(n - 1))}

\* The record of the most recent call: which method, on which task, with
\* which arguments, and whether it raised.
Call(op, self, task, value, validate, raised) ==
    [op |-> op, self |-> self, task |-> task, value |-> value,
     validate |-> validate, raised |-> raised]

NoCall == Call("none", NoTask, NoTask, NoneValue, FALSE, FALSE)

SetGraph(g) ==
    /\ parent' = g.parent
    /\ depends_on' = g.depends_on
    /\ subtasks' = g.subtasks
    /\ downstreams' = g.downstreams

\* -------------------------------------------------------------------- Init
\* The field defaults user_access = False and tools = [].
DefaultTools ==
    /\ user_access = [t \in Tasks |-> FALSE]
    /\ tools = [t \in Tasks |-> <<>>]

\* No task entered as a scope: the ambient stack and every task's stack of
\* scope handles are empty.
NoScope ==
    /\ ctx_tasks = <<>>
    /\ cm_stack = [t \in Tasks |-> <<>>]
    /\ with_blocks = <<>>

\* Neither run nor run_async called.
NoLoops ==
    /\ run = [d \in Drivers |-> IdleRun]
    /\ run_args = [max_iterations |-> 0, raise_on_error |-> TRUE,
                   strict_without_flow |-> FALSE]
    /\ effects = <<>>

\* No task constructed yet.
InitGraph ==
    /\ created = {}
    /\ parent = EmptyGraph.parent
    /\ depends_on = EmptyGraph.depends_on
    /\ subtasks = EmptyGraph.subtasks
    /\ downstreams = EmptyGraph.downstreams
    /\ status = [t \in Tasks |-> INCOMPLETE]
    /\ result = [t \in Tasks |-> NoneValue]
    /\ result_type = [t \in Tasks |-> TypeStr]
    /\ error = [t \in Tasks |-> NoneValue]
    /\ last = NoCall
    /\ nops = 0
    /\ DefaultTools /\ NoScope /\ NoLoops

\* NumLive tasks constructed, in any of the ways the constructor can wire
\* them, all carrying the same result_type descriptor (any value the field
\* admits, None included) and none marked yet.
Init ==
    /\ created = 1..NumLive
    /\ \E g \in Constructed(NumLive) :
          /\ parent = g.parent
          /\ depends_on = g.depends_on
          /\ subtasks = g.subtasks
          /\ downstreams = g.downstreams
    /\ status = [t \in Tasks |-> INCOMPLETE]
    /\ result = [t \in Tasks |-> NoneValue]
    /\ \E rt \in ResultTypes : result_type = [t \in Tasks |-> rt]
    /\ error = [t \in Tasks |-> NoneValue]
    /\ last = NoCall
    /\ nops = 0
    /\ DefaultTools /\ NoScope /\ NoLoops

GraphTick == nops < MaxGraphOps /\ nops' = nops + 1

Tick == nops < MaxOps /\ nops' = nops + 1

\* The identity of the next task object: objects are numbered in the order
\* of their construction.
Fresh == {t \in Tasks : t = Cardinality(created) + 1}

\* ----------------------------------------------------------------- actions
\* _default_parent: a parent that is not given is the task on top of the
\* ambient stack, if there is one.
DefaultParent(v) ==
    IF v # NoTask THEN v
    ELSE IF ctx_tasks = <<>> THEN NoTask
    ELSE ctx_tasks[Len(ctx_tasks)]

\* Task(parent=p, depends_on=deps, context={..cx..}) making the object t:
\* the field validators and defaults followed by _finalize.
ConstructWith(t, p, deps, cx) ==
    /\ GraphTick
    /\ created' = created \cup {t}
    /\ SetGraph(Finalize(Graph, t, DefaultParent(p), deps, cx))
    /\ last' = Call("__init__", t, DefaultParent(p), NoneValue, FALSE, FALSE)
    /\ UNCHANGED <<status, result, result_type, error>>
    /\ UNCHANGED <<toolset, scope, loops>>

\* A constructor call; its arguments can only name tasks that already
\* exist.
Construct ==
    \E t \in Fresh, p \in created \cup {NoTask}, deps \in SUBSET created,
       cx \in SUBSET created : ConstructWith(t, p, deps, cx)

\* A constructor call that names at most a parent.
ConstructPlain ==
    \E t \in Fresh, p \in created \cup {NoTask} : ConstructWith(t, p, {}, {})

\* A scope that forgets the tasks entered around it.
Context_OnlySelf(self) == [saved |-> ctx_tasks, tasks |-> <<self>>]

\* self._context(): the handle of one entry, holding the ambient stack as
\* it is found (stack) and the stack the scope sets (stack + [self]).
Context(self) == [saved |-> ctx_tasks, tasks |-> Append(ctx_tasks, self)]

\* Leaving `with ctx(tasks=...)`: the ambient stack is again what it was
\* when that block was entered.
CtxRestore(handle) == handle.saved

\* `with self:` is entered: __enter__ pushes a new handle on the task's
\* __cm_stack and enters it.
Enter(self) ==
    /\ self \in created
    /\ Len(with_blocks) < MaxDepth
    /\ cm_stack' = [cm_stack EXCEPT ![self] = Append(@, Context(self))]
    /\ ctx_tasks' = Context(self).tasks
    /\ with_blocks' = Append(with_blocks, self)
    /\ last' = Call("__enter__", self, NoTask, NoneValue, FALSE, FALSE)
    /\ UNCHANGED <<created, parent, depends_on, subtasks, downstreams, status,
                   result, result_type, error, nops>>
    /\ UNCHANGED <<toolset, loops>>

\* The innermost open `with self:` block is left, at its end or by an
\* exception raised in it (exc): __exit__ pops the task's latest handle and
\* exits it; an exception goes on to the caller.
Exit(self, exc) ==
    /\ with_blocks # <<>>
    /\ self = with_blocks[Len(with_blocks)]
    /\ cm_stack[self] # <<>>
    /\ ctx_tasks' = CtxRestore(cm_stack[self][Len(cm_stack[self])])
    /\ cm_stack' = [cm_stack EXCEPT
                      ![self] = SubSeq(@, 1, Len(@) - 1)]
    /\ with_blocks' = SubSeq(with_blocks, 1, Len(with_blocks) - 1)
    /\ last' = Call("__exit__", self, NoTask, NoneValue, FALSE, exc)
    /\ UNCHANGED <<created, parent, depends_on, subtasks, downstreams, status,
                   result, result_type, error, nops>>
    /\ UNCHANGED <<toolset, loops>>

add_subtask(self, task) ==
    /\ GraphTick
    /\ self \in created /\ task \in created
    /\ IF AddSubtaskRaises(Graph, self, task)
       THEN /\ last' = Call("add_subtask", self, task, NoneValue, FALSE, TRUE)
            /\ UNCHANGED <<parent, depends_on, subtasks, downstreams>>
       ELSE /\ SetGraph(AddSubtask(Graph, self, task))
            /\ last' = Call("add_subtask", self, task, NoneValue, FALSE, FALSE)
    /\ UNCHANGED <<created, status, result, result_type, error>>
    /\ UNCHANGED <<toolset, scope, loops>>

add_dependency(self, task) ==
    /\ GraphTick
    /\ self \in created /\ task \in created
    /\ SetGraph(AddDependency(Graph, self, task))
    /\ last' = Call("add_dependency", self, task, NoneValue, FALSE, FALSE)
    /\ UNCHANGED <<created, status, result, result_type, error>>
    /\ UNCHANGED <<toolset, scope, loops>>

set_status(self, s) ==
    /\ Tick
    /\ self \in created
    /\ status' = [status EXCEPT ![self] = s]
    /\ last' = Call("set_status", self, NoTask, s, FALSE, FALSE)
    /\ UNCHANGED <<created, parent, depends_on, subtasks, downstreams, result,
                   result_type, error>>
    /\ UNCHANGED <<toolset, scope, loops>>

\* A mark_successful that validates the result but never its upstreams.
MarkSuccessfulRaises_ResultOnly(self, r, validate_upstreams) ==
    validate_result(r, result_type[self]) = Raises

\* The checks of mark_successful that raise before anything is assigned.
MarkSuccessfulRaises(self, r, validate_upstreams) ==
    \/ validate_upstreams /\ IncompleteDependencies(self) # {}
    \/ validate_upstreams /\ IncompleteSubtasks(self) # {}
    \/ validate_result(r, result_type[self]) = Raises

\* The body of mark_successful: what one call does to the tasks.
MarkSuccessful(self, r, validate_upstreams) ==
    /\ IF MarkSuccessfulRaises(self, r, validate_upstreams)
       THEN /\ last' = Call("mark_successful", self, NoTask, r,
                            validate_upstreams, TRUE)
            /\ UNCHANGED <<status, result>>
       ELSE /\ result' = [result EXCEPT
                            ![self] = validate_result(r, result_type[self])]
            /\ status' = [status EXCEPT ![self] = SUCCESSFUL]
            /\ last' = Call("mark_successful", self, NoTask, r,
                            validate_upstreams, FALSE)
    /\ UNCHANGED <<created, parent, depends_on, subtasks, downstreams,
                   result_type, error>>

mark_successful(self, r, validate_upstreams) ==
    /\ Tick
    /\ self \in created
    /\ MarkSuccessful(self, r, validate_upstreams)
    /\ UNCHANGED <<toolset, scope, loops>>

\* A mark_failed that also fails the tasks waiting for this one.
MarkFailed_Cascade(self, message) ==
    /\ error' = [error EXCEPT ![self] = message]
    /\ status' = [t \in Tasks |->
                    IF t = self \/ t \in downstreams[self]
                    THEN FAILED ELSE status[t]]
    /\ last' = Call("mark_failed", self, NoTask, message, FALSE, FALSE)
    /\ UNCHANGED <<created, parent, depends_on, subtasks, downstreams, result,
                   result_type>>

\* The body of mark_failed.
MarkFailed(self, message) ==
    /\ error' = [error EXCEPT ![self] = message]
    /\ status' = [status EXCEPT ![self] = FAILED]
    /\ last' = Call("mark_failed", self, NoTask, message, FALSE, FALSE)
    /\ UNCHANGED <<created, parent, depends_on, subtasks, downstreams, result,
                   result_type>>

mark_failed(self, message) ==
    /\ Tick
    /\ self \in created
    /\ MarkFailed(self, message)
    /\ UNCHANGED <<toolset, scope, loops>>

\* A mark_skipped that refuses a task that is already complete.
MarkSkipped_OnlyIncomplete(self) ==
    /\ IF is_incomplete(self)
       THEN /\ status' = [status EXCEPT ![self] = SKIPPED]
            /\ last' = Call("mark_skipped", self, NoTask, NoneValue, FALSE,
                            FALSE)
       ELSE /\ last' = Call("mark_skipped", self, NoTask, NoneValue, FALSE,
                            TRUE)
            /\ UNCHANGED status
    /\ UNCHANGED <<created, parent, depends_on, subtasks, downstreams, result,
                   result_type, error>>

\* The body of mark_skipped.
MarkSkipped(self) ==
    /\ status' = [status EXCEPT ![self] = SKIPPED]
    /\ last' = Call("mark_skipped", self, NoTask, NoneValue, FALSE, FALSE)
    /\ UNCHANGED <<created, parent, depends_on, subtasks, downstreams, result,
                   result_type, error>>

mark_skipped(self) ==
    /\ Tick
    /\ self \in created
    /\ MarkSkipped(self)
    /\ UNCHANGED <<toolset, scope, loops>>

\* Construction and wiring of the task graph.
NextGraph ==
    \/ Construct
    \/ \E self \in Tasks, task \in Tasks : add_subtask(self, task)
    \/ \E self \in Tasks, task \in Tasks : add_dependency(self, task)

SpecGraph == InitGraph /\ [][NextGraph]_vars

\* The status operations on constructed tasks.
Next ==
    \/ \E self \in Tasks, r \in Values, v \in BOOLEAN :
          mark_successful(self, r, v)
    \/ \E self \in Tasks, m \in Messages : mark_failed(self, m)
    \/ \E self \in Tasks : mark_skipped(self)
    \/ \E self \in Tasks, s \in TaskStatus : set_status(self, s)

Spec == Init /\ [][Next]_vars

\* The status operations without the raw setter: mark_successful,
\* mark_failed and mark_skipped only.
NextMark ==
    \/ \E self \in Tasks, r \in Values, v \in BOOLEAN :
          mark_successful(self, r, v)
    \/ \E self \in Tasks, m \in Messages : mark_failed(self, m)
    \/ \E self \in Tasks : mark_skipped(self)

SpecMark == Init /\ [][NextMark]_vars

\* ---------------------------------------------------------------- run loop
\* Two unrelated tasks with the default result_type, both in the state st
\* (fresh, or already marked), and one call of run on the first and of
\* run_async on the second with the same arguments, the same flow settings
\* and the same effects of the rounds.
InitRun ==
    /\ created = {1, 2}
    /\ parent = EmptyGraph.parent
    /\ depends_on = EmptyGraph.depends_on
    /\ subtasks = EmptyGraph.subtasks
    /\ downstreams = EmptyGraph.downstreams
    /\ result_type = [t \in Tasks |-> TypeStr]
    /\ \E st \in TaskStatus :
          /\ status = [t \in Tasks |-> IF t \in {1, 2} THEN st ELSE INCOMPLETE]
          /\ result = [t \in Tasks |-> IF t \in {1, 2} /\ st = SUCCESSFUL
                                        THEN "c" ELSE NoneValue]
          /\ error = [t \in Tasks |-> IF t \in {1, 2} /\ st = FAILED
                                       THEN "boom" ELSE NoneValue]
    /\ last = NoCall
    /\ nops = 0
    /\ DefaultTools /\ NoScope
    /\ run = [d \in Drivers |-> IdleRun]
    /\ \E n \in (0..MaxIterations) \cup {Infinite}, roe \in BOOLEAN,
          noflow \in BOOLEAN :
          run_args = [max_iterations |-> n, raise_on_error |-> roe,
                      strict_without_flow |-> noflow]
    /\ effects \in [1..MaxIterations -> Effects]

Busy(d) == run[d].pc \notin {"idle", "done"}

\* A limit test that lets one round too many through.
LimitReached_OffByOne(counter, max_iterations) ==
    max_iterations # Infinite /\ counter > max_iterations

\* counter >= max_iterations
LimitReached(counter, max_iterations) ==
    max_iterations # Infinite /\ counter >= max_iterations

\* An ending that raises for a failed task whatever raise_on_error says.
Outcome_AlwaysRaises(t, raise_on_error) ==
    IF is_successful(t) THEN [kind |-> "return", value |-> result[t]]
    ELSE IF is_failed(t)
         THEN [kind |-> "raise_failed", value |-> error[t]]
         ELSE [kind |-> "return", value |-> NoneValue]

\* What _run ends with once the task is no longer incomplete.
Outcome(t, raise_on_error) ==
    IF is_successful(t) THEN [kind |-> "return", value |-> result[t]]
    ELSE IF is_failed(t) /\ raise_on_error
         THEN [kind |-> "raise_failed", value |-> error[t]]
         ELSE [kind |-> "return", value |-> NoneValue]

\* The k-th external round run for task t.
Round(t, k) ==
    LET e == effects[k]
    IN CASE e.op = "mark_successful" -> MarkSuccessful(t, e.value, TRUE)
         [] e.op = "mark_failed" -> MarkFailed(t, e.value)
         [] e.op = "mark_skipped" -> MarkSkipped(t)
         [] OTHER -> UNCHANGED <<created, parent, depends_on, subtasks,
                                 downstreams, status, result, result_type,
                                 error, last>>

\* The driver creates the generator and makes its first next() call: _run
\* settles max_iterations and the flow and reaches the loop test, or raises
\* for want of a flow.  run blocks its thread, so no other loop is under way.
StartRun(d) ==
    /\ run[d].pc = "idle"
    /\ \A o \in Drivers : ~Busy(o)
    /\ run' = [run EXCEPT ![d] =
                  IF run_args.strict_without_flow
                  THEN [@ EXCEPT !.pc = "done",
                                 !.outcome = [kind |-> "raise_no_flow",
                                              value |-> NoneValue]]
                  ELSE [@ EXCEPT !.pc = "test"]]
    /\ UNCHANGED <<created, parent, depends_on, subtasks, downstreams, status,
                   result, result_type, error, last, nops, run_args, effects>>
    /\ UNCHANGED <<toolset, scope>>

\* while self.is_incomplete(): if counter >= max_iterations: raise
LimitError(d) ==
    /\ run[d].pc = "test"
    /\ is_incomplete(RunTask(d))
    /\ LimitReached(run[d].counter, run_args.max_iterations)
    /\ run' = [run EXCEPT ![d].pc = "done",
                          ![d].outcome = [kind |-> "raise_limit",
                                          value |-> NoneValue]]
    /\ UNCHANGED <<created, parent, depends_on, subtasks, downstreams, status,
                   result, result_type, error, last, nops, run_args, effects>>
    /\ UNCHANGED <<toolset, scope>>

\* The loop body may be entered: the task is incomplete and the limit is
\* not reached (a loop without limit is followed for MaxIterations rounds).
EntersBody(d) ==
    /\ run[d].pc = "test"
    /\ is_incomplete(RunTask(d))
    /\ ~LimitReached(run[d].counter, run_args.max_iterations)
    /\ run[d].counter < MaxIterations

\* run: `yield self.run_once(flow=flow)` runs the whole round inside the
\* generator and then suspends it.
RunOnce(d) ==
    /\ d = "run"
    /\ EntersBody(d)
    /\ Round(RunTask(d), run[d].rounds + 1)
    /\ run' = [run EXCEPT ![d].pc = "yielded", ![d].rounds = @ + 1]
    /\ UNCHANGED <<nops, run_args, effects, toolset, scope>>

\* run_async: `yield self.run_once_async(flow=flow)` hands a coroutine that
\* has not started to the driver.
YieldPending(d) ==
    /\ d = "run_async"
    /\ EntersBody(d)
    /\ run' = [run EXCEPT ![d].pc = "pending"]
    /\ UNCHANGED <<created, parent, depends_on, subtasks, downstreams, status,
                   result, result_type, error, last, nops, run_args, effects>>
    /\ UNCHANGED <<toolset, scope>>

\* A driver that takes the coroutine and goes on without running it.
Await_NotAwaited(d) ==
    /\ run[d].pc = "pending"
    /\ run' = [run EXCEPT ![d].pc = "yielded", ![d].rounds = @ + 1]
    /\ UNCHANGED <<created, parent, depends_on, subtasks, downstreams, status,
                   result, result_type, error, last, nops, run_args, effects>>
    /\ UNCHANGED <<toolset, scope>>

\* run_async: `await next(gen)` runs the round to its end.
Await(d) ==
    /\ run[d].pc = "pending"
    /\ Round(RunTask(d), run[d].rounds + 1)
    /\ run' = [run EXCEPT ![d].pc = "yielded", ![d].rounds = @ + 1]
    /\ UNCHANGED <<nops, run_args, effects, toolset, scope>>

\* The driver's next next(gen): counter += 1 and back to the loop test.
Resume(d) ==
    /\ run[d].pc = "yielded"
    /\ run' = [run EXCEPT ![d].pc = "test", ![d].counter = @ + 1]
    /\ UNCHANGED <<created, parent, depends_on, subtasks, downstreams, status,
                   result, result_type, error, last, nops, run_args, effects>>
    /\ UNCHANGED <<toolset, scope>>

\* The loop is left because the task is no longer incomplete: _run returns
\* or raises, and the driver passes that on (StopIteration.value).
Finish(d) ==
    /\ run[d].pc = "test"
    /\ ~is_incomplete(RunTask(d))
    /\ run' = [run EXCEPT ![d].pc = "done",
                          ![d].outcome =
                              Outcome(RunTask(d), run_args.raise_on_error)]
    /\ UNCHANGED <<created, parent, depends_on, subtasks, downstreams, status,
                   result, result_type, error, last, nops, run_args, effects>>
    /\ UNCHANGED <<toolset, scope>>

\* The steps of a loop that has been called.
LoopStep ==
    \/ \E d \in Drivers : LimitError(d)
    \/ \E d \in Drivers : RunOnce(d)
    \/ \E d \in Drivers : YieldPending(d)
    \/ \E d \in Drivers : Await(d)
    \/ \E d \in Drivers : Resume(d)
    \/ \E d \in Drivers : Finish(d)

NextRun ==
    \/ \E d \in Drivers : StartRun(d)
    \/ \E d \in Drivers : LimitError(d)
    \/ \E d \in Drivers : RunOnce(d)
    \/ \E d \in Drivers : YieldPending(d)
    \/ \E d \in Drivers : Await(d)
    \/ \E d \in Drivers : Resume(d)
    \/ \E d \in Drivers : Finish(d)

SpecRun == InitRun /\ [][NextRun]_vars

\* A loop that has been called is executed: the interpreter runs the
\* generator and the driver, and the awaited round is scheduled.  That a
\* driver is called at all is up to the caller.
SpecRunFair == SpecRun /\ WF_vars(LoopStep)

\* Tasks entered as scopes, and tasks constructed inside the scopes.
NextScope ==
    \/ ConstructPlain
    \/ \E self \in Tasks : Enter(self)
    \/ \E self \in Tasks, exc \in BOOLEAN : Exit(self, exc)

SpecScope == InitGraph /\ [][NextScope]_vars

\* Unrelated tasks with the default result_type, each with or without
\* user_access, all with the same tools of their own: none, or one.
InitTools ==
    /\ created = 1..NumLive
    /\ parent = EmptyGraph.parent
    /\ depends_on = EmptyGraph.depends_on
    /\ subtasks = EmptyGraph.subtasks
    /\ downstreams = EmptyGraph.downstreams
    /\ status = [t \in Tasks |-> INCOMPLETE]
    /\ result = [t \in Tasks |-> NoneValue]
    /\ result_type = [t \in Tasks |-> TypeStr]
    /\ error = [t \in Tasks |-> NoneValue]
    /\ last = NoCall
    /\ nops = 0
    /\ \E ua \in SUBSET (1..NumLive) :
          user_access = [t \in Tasks |-> t \in ua]
    /\ \E own \in {<<>>, <<OwnTool>>} : tools = [t \in Tasks |-> own]
    /\ NoScope /\ NoLoops

\* The status operations on tasks whose tools are asked for.
SpecTools == InitTools /\ [][NextMark]_vars

\* Tasks constructed while earlier ones are already being marked.
NextBuild ==
    \/ Construct
    \/ \E self \in Tasks, r \in Values, v \in BOOLEAN :
          mark_successful(self, r, v)
    \/ \E self \in Tasks, m \in Messages : mark_failed(self, m)
    \/ \E self \in Tasks : mark_skipped(self)

SpecBuild == InitGraph /\ [][NextBuild]_vars

\* Dependencies added between constructed tasks, which can close cycles,
\* while the tasks are being marked.
NextCycle ==
    \/ \E self \in Tasks, task \in Tasks : add_dependency(self, task)
    \/ \E self \in Tasks, r \in Values, v \in BOOLEAN :
          mark_successful(self, r, v)
    \/ \E self \in Tasks, m \in Messages : mark_failed(self, m)
    \/ \E self \in Tasks : mark_skipped(self)

\* The constructed tasks with the default result_type, str.
InitCycle == Init /\ result_type = [t \in Tasks |-> TypeStr]

SpecCycle == InitCycle /\ [][NextCycle]_vars

\* ------------------------------------------------------------------ claims
Terminal == {SUCCESSFUL, FAILED, SKIPPED}

\* The tasks whose completion mark_successful is said to wait for.
Upstreams(t) == depends_on[t] \cup subtasks[t]

\* C1: under any sequence of mark_successful, mark_failed, mark_skipped and
\* set_status calls, a status changes only from INCOMPLETE to SUCCESSFUL,
\* FAILED or SKIPPED, and a terminal status never changes again.
C1_StatusOnlyLeavesIncomplete ==
    [][\A t \in Tasks :
          status'[t] # status[t] =>
             status[t] = INCOMPLETE /\ status'[t] \in Terminal]_vars

\* C2: in every state reached by constructing tasks and calling
\* add_dependency and add_subtask, B is in A.depends_on if and only if A is
\* in B.downstreams.
C2_DependsOnDownstreamsMutual ==
    \A a \in created, b \in created :
       b \in depends_on[a] <=> a \in downstreams[b]

\* C3 as stated: whenever a status becomes SUCCESSFUL, by whatever operation
\* and arguments, every member of depends_on and of subtasks is terminal.
C3_SuccessfulImpliesUpstreamsTerminal ==
    [][\A t \in Tasks :
          (status'[t] = SUCCESSFUL /\ status[t] # SUCCESSFUL) =>
             \A d \in Upstreams(t) : status'[d] \in Terminal]_vars

\* C3 amended: whenever mark_successful called with validate_upstreams true
\* sets a status to SUCCESSFUL, every member of depends_on and of subtasks
\* of that task is terminal at that moment.
C3_ValidatedSuccessImpliesUpstreamsTerminal ==
    (last.op = "mark_successful" /\ last.validate /\ ~last.raised) =>
       /\ status[last.self] = SUCCESSFUL
       /\ \A d \in Upstreams(last.self) : status[d] \in Terminal

C3_Witness ==
    /\ last.op = "mark_successful" /\ last.validate /\ ~last.raised
    /\ depends_on[last.self] \ {last.self} # {}
    /\ subtasks[last.self] # {}

\* C4 as stated: with validate_upstreams true, mark_successful on a task with
\* an INCOMPLETE member of depends_on or subtasks raises and the task's
\* status is INCOMPLETE afterwards.
C4_BlockedSuccessLeavesIncomplete ==
    [][(/\ last'.op = "mark_successful"
        /\ last'.validate
        /\ \E d \in Upstreams(last'.self) : status[d] = INCOMPLETE) =>
          /\ last'.raised
          /\ status'[last'.self] = INCOMPLETE]_vars

\* C4 amended: with validate_upstreams true, mark_successful on a task with
\* an INCOMPLETE member of depends_on or subtasks raises and the task's
\* status is afterwards what it was before the call (INCOMPLETE for a task
\* that was INCOMPLETE).
C4_BlockedSuccessLeavesStatus ==
    [][(/\ last'.op = "mark_successful"
        /\ last'.validate
        /\ \E d \in Upstreams(last'.self) : status[d] = INCOMPLETE) =>
          /\ last'.raised
          /\ status'[last'.self] = status[last'.self]]_vars

C4_Witness ==
    /\ last.op = "mark_successful" /\ last.validate /\ last.raised
    /\ \E d \in Upstreams(last.self) : status[d] = INCOMPLETE
    /\ validate_python(last.value, result_type[last.self]) # Raises
    /\ status[last.self] = INCOMPLETE

\* C5: in every state reached by mark_successful, mark_failed and
\* mark_skipped calls, result is non-null only if status is SUCCESSFUL, and
\* a task whose result_type is absent has a null result.
C5_ResultOnlyWhenSuccessful ==
    \A t \in created :
       /\ result[t] # NoneValue => status[t] = SUCCESSFUL
       /\ result_type[t] = TypeNone => result[t] = NoneValue

\* C6: in every state reached by mark_failed, mark_successful and
\* mark_skipped calls, error is non-null only if status is FAILED.
C6_ErrorOnlyWhenFailed ==
    \A t \in created : error[t] # NoneValue => status[t] = FAILED

\* A result that the claim says fails validation: a value outside an
\* enumerated result_type, or a non-null value when result_type is absent.
C7_Rejected(r, rt) ==
    \/ rt = TypeLiteralAB /\ r \notin {"a", "b"}
    \/ rt = TypeNone /\ r # NoneValue

\* C7: a mark_successful call whose result fails validation against
\* result_type raises and leaves status and result as they were; a value
\* inside the enumerated set, with all dependencies complete, sets status
\* SUCCESSFUL and stores that value as result.
C7_ValidationBeforeMutation ==
    [][last'.op = "mark_successful" =>
          /\ C7_Rejected(last'.value, result_type[last'.self]) =>
                /\ last'.raised
                /\ status'[last'.self] = status[last'.self]
                /\ result'[last'.self] = result[last'.self]
          /\ (/\ result_type[last'.self] = TypeLiteralAB
              /\ last'.value \in {"a", "b"}
              /\ \A d \in Upstreams(last'.self) : status[d] # INCOMPLETE) =>
                /\ ~last'.raised
                /\ status'[last'.self] = SUCCESSFUL
                /\ result'[last'.self] = last'.value]_vars

C7_Witness ==
    /\ last.op = "mark_successful" /\ last.raised
    /\ C7_Rejected(last.value, result_type[last.self])
    /\ \A d \in Upstreams(last.self) : status[d] # INCOMPLETE
    /\ status[last.self] = SUCCESSFUL
    /\ result[last.self] = "a"

\* C8: for P and C where C has no parent or has parent P, after
\* P.add_subtask(C) C.parent is P, C is in P.subtasks and in P.depends_on; a
\* second P.add_subtask(C) changes nothing; and in every state every member
\* of a task's subtasks is a member of its depends_on.
C8_AddSubtask ==
    [][/\ (/\ last'.op = "add_subtask"
           /\ parent[last'.task] \in {NoTask, last'.self}) =>
             /\ ~last'.raised
             /\ parent'[last'.task] = last'.self
             /\ last'.task \in subtasks'[last'.self]
             /\ last'.task \in depends_on'[last'.self]
             /\ (/\ parent[last'.task] = last'.self
                 /\ last'.task \in subtasks[last'.self]
                 /\ last'.task \in depends_on[last'.self]) =>
                   UNCHANGED <<created, parent, depends_on, subtasks,
                               downstreams, status, result, result_type,
                               error>>
       /\ \A t \in Tasks : subtasks'[t] \subseteq depends_on'[t]]_vars

C8_Witness ==
    /\ last.op = "add_subtask" /\ ~last.raised
    /\ last.self # last.task
    /\ parent[last.task] = last.self
    /\ last.task \in subtasks[last.self] \cap depends_on[last.self]

\* C9: for C whose parent is Q and P different from Q, P.add_subtask(C)
\* raises and leaves C.parent, P.subtasks and P.depends_on unchanged; a task
\* never has two different parents over its lifetime.
C9_NoSecondParent ==
    [][/\ (/\ last'.op = "add_subtask"
           /\ parent[last'.task] \notin {NoTask, last'.self}) =>
             /\ last'.raised
             /\ parent'[last'.task] = parent[last'.task]
             /\ subtasks'[last'.self] = subtasks[last'.self]
             /\ depends_on'[last'.self] = depends_on[last'.self]
       /\ \A t \in Tasks : parent[t] # NoTask => parent'[t] = parent[t]]_vars

C9_Witness ==
    /\ last.op = "add_subtask" /\ last.raised
    /\ parent[last.task] \notin {NoTask, last.self, last.task}
    /\ last.task \notin subtasks[last.self] \cup depends_on[last.self]

\* C10: after A.add_dependency(B), B is in A.depends_on and A is in
\* B.downstreams, and no other depends_on or downstreams set has changed
\* (A is not added to B.depends_on nor B to A.downstreams unless A is B);
\* repeating the call changes nothing.
C10_AddDependencyFrame ==
    [][last'.op = "add_dependency" =>
          /\ ~last'.raised
          /\ depends_on'[last'.self] = depends_on[last'.self] \cup {last'.task}
          /\ downstreams'[last'.task] =
                downstreams[last'.task] \cup {last'.self}
          /\ \A x \in Tasks \ {last'.self} : depends_on'[x] = depends_on[x]
          /\ \A x \in Tasks \ {last'.task} : downstreams'[x] = downstreams[x]
          /\ (/\ last'.task \in depends_on[last'.self]
              /\ last'.self \in downstreams[last'.task]) =>
                UNCHANGED <<created, parent, depends_on, subtasks,
                            downstreams, status, result, result_type,
                            error>>]_vars

C10_Witness ==
    /\ last.op = "add_dependency"
    /\ last.self # last.task
    /\ last.task \in depends_on[last.self]
    /\ last.self \in downstreams[last.task]
    /\ last.self \notin depends_on[last.task]
    /\ last.task \notin downstreams[last.self]

\* C11: is_ready holds of a task exactly when its status is INCOMPLETE and
\* every task in its depends_on has a status other than INCOMPLETE, as the
\* statuses are when it is asked; so when a call marks the last incomplete
\* dependency of an INCOMPLETE task successful, failed or skipped, the task
\* is ready in the state the call leaves.
C11_ReadyFollowsLiveStatus ==
    [][/\ \A t \in created :
             is_ready(t)' <=>
                /\ status'[t] = INCOMPLETE
                /\ \A d \in depends_on'[t] :
                      status'[d] \in {SUCCESSFUL, FAILED, SKIPPED}
       /\ \A t \in created \ {last'.self} :
             (/\ status[t] = INCOMPLETE
              /\ {d \in depends_on[t] : status[d] = INCOMPLETE} = {last'.self}
              /\ status'[last'.self] # INCOMPLETE) => is_ready(t)']_vars

\* A task that was waiting for one dependency is ready right after that
\* dependency was marked failed.
C11_Witness ==
    /\ last.op = "mark_failed"
    /\ \E t \in created :
          /\ depends_on[t] = {last.self}
          /\ t # last.self
          /\ is_ready(t)

\* C12 as stated: right after its construction a task is INCOMPLETE, and it
\* is ready exactly when its depends_on is empty, whatever the statuses of
\* the tasks it was given as dependencies or context.
C12_ReadyIffNoDependencies ==
    last.op = "__init__" =>
        /\ status[last.self] = INCOMPLETE
        /\ is_ready(last.self) <=> depends_on[last.self] = {}

\* C12 as amended: right after its construction a task is INCOMPLETE, and
\* it is ready exactly when none of the tasks in its depends_on is
\* INCOMPLETE at that time: always when depends_on is empty, and also when
\* every task it was given as dependency or context is already complete.
C12_ReadyIffDependenciesComplete ==
    last.op = "__init__" =>
        /\ status[last.self] = INCOMPLETE
        /\ is_ready(last.self) <=>
              {d \in depends_on[last.self] : status[d] = INCOMPLETE} = {}
        /\ depends_on[last.self] = {} => is_ready(last.self)

\* A task constructed on dependencies that had all been marked before: it
\* is ready although its depends_on is not empty.
C12_Witness ==
    /\ last.op = "__init__"
    /\ depends_on[last.self] # {}
    /\ \A d \in depends_on[last.self] : status[d] \in {FAILED, SKIPPED, SUCCESSFUL}
    /\ is_ready(last.self)

\* The tasks that t depends on through one or more depends_on links, found
\* by following the links n more times from the tasks in seen.
RECURSIVE DependsOnWithin(_, _, _)
DependsOnWithin(seen, n, among) ==
    IF n = 0 THEN seen
    ELSE DependsOnWithin(
            seen \cup {d \in among : \E s \in seen : d \in depends_on[s]},
            n - 1, among)

\* t lies on a cycle of depends_on links that runs through tasks of among.
OnCycle(t, among) ==
    /\ t \in among
    /\ t \in DependsOnWithin(depends_on[t] \cap among, NumTasks, among)

\* C13 as stated: wiring a dependency cycle raises no error, and a task on
\* a cycle is not ready in any state from then on, whatever marking calls
\* are made.
C13_CycleNeverReady ==
    /\ last.op \in {"__init__", "add_dependency"} => ~last.raised
    /\ \A t \in created : OnCycle(t, created) => ~is_ready(t)

\* C13 as amended: wiring a dependency cycle raises no error, and a task on
\* a cycle is not ready in any state in which the tasks of that cycle are
\* all still INCOMPLETE.  (Marking a task of the cycle failed or skipped, or
\* successful without upstream validation, lets the tasks that wait only
\* for it become ready.)
C13_IncompleteCycleNeverReady ==
    /\ last.op \in {"__init__", "add_dependency"} => ~last.raised
    /\ \A t \in created :
          OnCycle(t, {c \in created : status[c] = INCOMPLETE}) => ~is_ready(t)

\* A cycle through two different tasks has been closed by add_dependency and
\* a call was made on one of its tasks that left the cycle INCOMPLETE.
C13_Witness ==
    /\ last.op = "mark_successful"
    /\ last.raised
    /\ \E t \in created \ {last.self} :
          /\ t \in depends_on[last.self]
          /\ last.self \in depends_on[t]
          /\ OnCycle(t, {c \in created : status[c] = INCOMPLETE})
          /\ ~is_ready(t)

\* C14: a loop called with a finite max_iterations = N runs at most N
\* rounds and comes to an end; it raises the iteration-limit error only
\* after exactly N rounds with the task INCOMPLETE, and does raise it when
\* the task is still INCOMPLETE after N rounds (at once when N = 0); and it
\* starts a round only while the task is INCOMPLETE, so none once the task
\* has left INCOMPLETE and none at all if it was complete on entry.
C14_RunLoopBounded ==
    /\ [][\A d \in Drivers :
            run_args.max_iterations # Infinite =>
              /\ run'[d].rounds <= run_args.max_iterations
              /\ run'[d].outcome.kind = "raise_limit" =>
                    /\ run'[d].rounds = run_args.max_iterations
                    /\ status'[RunTask(d)] = INCOMPLETE
              /\ (/\ run'[d].pc = "done"
                  /\ run'[d].outcome.kind # "raise_no_flow"
                  /\ status'[RunTask(d)] = INCOMPLETE) =>
                    run'[d].outcome.kind = "raise_limit"
              /\ run'[d].rounds # run[d].rounds =>
                    /\ status[RunTask(d)] = INCOMPLETE
                    /\ run'[d].rounds = run[d].rounds + 1]_vars
    /\ \A d \in Drivers :
          (Busy(d) /\ run_args.max_iterations # Infinite)
             ~> (run[d].pc = "done")
    /\ \A d \in Drivers :
          (/\ run[d].pc = "test"
           /\ run[d].rounds = run_args.max_iterations
           /\ status[RunTask(d)] = INCOMPLETE)
             ~> (run[d].outcome.kind = "raise_limit")

\* A loop called with max_iterations = 2 has raised the iteration-limit
\* error after two rounds that left the task INCOMPLETE.
C14_Witness ==
    \E d \in Drivers :
       /\ run_args.max_iterations = 2
       /\ run[d].outcome.kind = "raise_limit"
       /\ run[d].rounds = 2
       /\ status[RunTask(d)] = INCOMPLETE

\* C15: a loop that ended because its task was no longer INCOMPLETE ended
\* as the final status says: SUCCESSFUL returns the task's result; FAILED
\* raises the task-failed error with the task's error when raise_on_error
\* is true and returns None when it is false; SKIPPED returns None.
C15_OutcomeByFinalStatus ==
    \A d \in Drivers :
       (/\ run[d].pc = "done"
        /\ run[d].outcome.kind \notin {"raise_no_flow", "raise_limit"}) =>
          /\ status[RunTask(d)] \in {SUCCESSFUL, FAILED, SKIPPED}
          /\ status[RunTask(d)] = SUCCESSFUL =>
                run[d].outcome = [kind |-> "return",
                                  value |-> result[RunTask(d)]]
          /\ (status[RunTask(d)] = FAILED /\ run_args.raise_on_error) =>
                run[d].outcome = [kind |-> "raise_failed",
                                  value |-> error[RunTask(d)]]
          /\ (status[RunTask(d)] = FAILED /\ ~run_args.raise_on_error) =>
                run[d].outcome = [kind |-> "return", value |-> NoneValue]
          /\ status[RunTask(d)] = SKIPPED =>
                run[d].outcome = [kind |-> "return", value |-> NoneValue]

\* A loop called with raise_on_error false has returned None for a task
\* that a round marked failed.
C15_Witness ==
    \E d \in Drivers :
       /\ run[d].pc = "done"
       /\ run[d].rounds > 0
       /\ status[RunTask(d)] = FAILED
       /\ error[RunTask(d)] = "boom"
       /\ ~run_args.raise_on_error
       /\ run[d].outcome = [kind |-> "return", value |-> NoneValue]

\* C16: run and run_async, called on tasks in the same state with the same
\* max_iterations and raise_on_error and given the same effects of the
\* rounds, have run the same number of rounds and ended with the same
\* return value or error once both have ended; and in either of them a
\* round starts only when every earlier round has finished and been
\* counted and the loop test has been made again.
C16_RunAsyncEquivalent ==
    [][/\ (\A d \in Drivers : run'[d].pc = "done") =>
             /\ run'["run"].rounds = run'["run_async"].rounds
             /\ run'["run"].outcome = run'["run_async"].outcome
             /\ status'[RunTask("run")] = status'[RunTask("run_async")]
             /\ result'[RunTask("run")] = result'[RunTask("run_async")]
             /\ error'[RunTask("run")] = error'[RunTask("run_async")]
       /\ \A d \in Drivers :
             /\ run'[d].rounds - run'[d].counter \in {0, 1}
             /\ run'[d].rounds # run[d].rounds =>
                   /\ run[d].rounds = run[d].counter
                   /\ run[d].pc \in {"test", "pending"}
                   /\ run'[d].pc = "yielded"]_vars

\* Both loops have ended after two rounds each, the second of which marked
\* the task successful, and both returned its result.
C16_Witness ==
    /\ \A d \in Drivers :
          /\ run[d].pc = "done"
          /\ run[d].rounds = 2
          /\ run[d].outcome = [kind |-> "return", value |-> "a"]
    /\ effects[1].op = "none"

\* C17: entering a task as a scope puts it on top of the ambient stack and
\* leaving the scope, at its end or by an error, takes it off again: with
\* properly nested blocks, the same task entered again included, the
\* ambient stack is at every moment the open blocks in the order they were
\* entered, so its top is the task entered last and it is back to what it
\* was once the outermost block is left; a task constructed inside a scope
\* without a parent of its own gets the top of the stack as its parent.
C17_ScopeStackFollowsBlocks ==
    [][/\ ctx_tasks' = with_blocks'
       /\ Len(with_blocks') > Len(with_blocks) =>
             /\ ctx_tasks' = Append(ctx_tasks, last'.self)
             /\ ctx_tasks'[Len(ctx_tasks')] = last'.self
       /\ Len(with_blocks') < Len(with_blocks) =>
             /\ Append(ctx_tasks', last'.self) = ctx_tasks
             /\ Len(with_blocks') = 0 => ctx_tasks' = <<>>
       /\ (created' # created /\ with_blocks # <<>>) =>
             parent'[last'.self]
                \in created \cup {with_blocks[Len(with_blocks)]}]_vars

\* Task 1 was entered twice, one block inside the other, and the inner
\* block has been left by an error: task 1 is on the stack once.
C17_Witness ==
    /\ last.op = "__exit__"
    /\ last.raised
    /\ last.self = 1
    /\ ctx_tasks = <<1>>
    /\ Len(cm_stack[1]) = 1

\* C18: what get_tools returns for a task holds the task's success tool and
\* its fail tool exactly when the task's status is INCOMPLETE at that time,
\* never holds the skip tool, and holds talk_to_human exactly when
\* user_access is set, in every status.
C18_ToolsFollowStatus ==
    \A t \in created :
       LET offered == {get_tools(t)[i] : i \in DOMAIN get_tools(t)}
       IN /\ [tool |-> "succeed", task |-> t] \in offered
                <=> status[t] = INCOMPLETE
          /\ [tool |-> "fail", task |-> t] \in offered
                <=> status[t] = INCOMPLETE
          /\ \A u \in Tasks : SkipTool(u) \notin offered
          /\ [tool |-> "talk_to_human", task |-> NoTask] \in offered
                <=> user_access[t]

\* A task with user_access and a tool of its own has been marked failed:
\* get_tools returns its own tool and talk_to_human, nothing else.
C18_Witness ==
    \E t \in created :
       /\ last.op = "mark_failed" /\ last.self = t
       /\ user_access[t]
       /\ get_tools(t) = <<OwnTool, TalkToHuman>>

\* C19: mark_failed and mark_skipped ask nothing of the task: whatever its
\* status and whatever dependencies or subtasks are still INCOMPLETE, the
\* call does not raise and leaves the status FAILED with error set to the
\* message given, respectively SKIPPED; a mark_skipped that follows a
\* mark_skipped on the same task finds it SKIPPED and leaves it SKIPPED.
C19_FailSkipUnconditional ==
    [][/\ last'.op = "mark_failed" =>
             /\ ~last'.raised
             /\ status'[last'.self] = FAILED
             /\ error'[last'.self] = last'.value
       /\ last'.op = "mark_skipped" =>
             /\ ~last'.raised
             /\ status'[last'.self] = SKIPPED
       /\ (/\ last.op = "mark_skipped"
           /\ last'.op = "mark_skipped"
           /\ last'.self = last.self) =>
             /\ status[last.self] = SKIPPED
             /\ status'[last.self] = SKIPPED]_vars

\* A second call has skipped a task that still has an INCOMPLETE upstream
\* task and whose status the first call had set.
C19_Witness ==
    /\ nops = 2
    /\ last.op = "mark_skipped"
    /\ status[last.self] = SKIPPED
    /\ \E d \in Upstreams(last.self) : status[d] = INCOMPLETE
    /\ \A t \in created \ {last.self} : status[t] = INCOMPLETE

\* C20: a call of mark_successful, mark_failed or mark_skipped on a task,
\* whether it goes through or raises, leaves the status, result and error
\* of every other task as they were, and the parent, subtasks, depends_on
\* and downstreams of every task, the called one included.
C20_MarkFrame ==
    [][last'.op \in {"mark_successful", "mark_failed", "mark_skipped"} =>
          /\ \A t \in Tasks \ {last'.self} :
                /\ status'[t] = status[t]
                /\ result'[t] = result[t]
                /\ error'[t] = error[t]
          /\ \A t \in Tasks :
                /\ parent'[t] = parent[t]
                /\ subtasks'[t] = subtasks[t]
                /\ depends_on'[t] = depends_on[t]
                /\ downstreams'[t] = downstreams[t]]_vars

\* A task with a parent and a task waiting for it has been marked failed
\* while another task already carried a result.
C20_Witness ==
    /\ last.op = "mark_failed"
    /\ downstreams[last.self] # {}
    /\ \E t \in created \ {last.self} :
          /\ status[t] = SUCCESSFUL
          /\ result[t] # NoneValue

====
